---- MODULE Spec2Model ----
(***************************************************************************)
(* A model of SmartMusicManager (src/main.py): the filename heuristics     *)
(* (_split_filename, _is_likely_artist, _is_likely_song_title,             *)
(* _parse_filename_intelligently, _clean_title), the metadata resolver     *)
(* (extract_metadata) and the run (_collect_artist_candidates,             *)
(* process_directory, generate_json).                                      *)
(*                                                                         *)
(* A Python str is a sequence of characters.  An ASCII character is the    *)
(* one-character string that spells it; a non-ASCII character is named by  *)
(* its code point ("u5468" is U+5468).  None and the empty str are both    *)
(* the empty sequence: every use the code makes of an optional str is a    *)
(* truthiness test ("not x", "x or y", "if x"), which cannot tell them     *)
(* apart.                                                                  *)
(***************************************************************************)
EXTENDS Integers, Sequences, FiniteSets, TLC

VARIABLES
    pc,                \* position of the run (or of the function applied)
    inp,               \* the arguments of the function applied
    out,               \* its result
    music_files,       \* the scanned files, in glob order
    artist_candidates, \* self.artist_candidates: token -> count
    idx,               \* the place in music_files the loop of line 363 is at
    audio,             \* output audio/ : filename -> writer (0: there before the run)
    lyrics,            \* output lyrics/: filename -> writer
    music_list,        \* process_directory's music_list
    log,               \* per visited file: its index and how the iteration ended
    playlist           \* playlist.json as written by generate_json

vars == <<pc, inp, out, music_files, artist_candidates, idx, audio, lyrics,
          music_list, log, playlist>>

runVars == <<music_files, artist_candidates, idx, audio, lyrics, music_list,
             log, playlist>>

---------------------------------------------------------------------------
(* Characters and the character classes of Python's re (str patterns).     *)

None == <<>>

WhitespaceChars == {" "}

\* [~\-_\s\.—–] : the separator class of lines 61, 168, 194, 195
SeparatorChars == {"~", "-", "_", ".", "u2014", "u2013"} \cup WhitespaceChars

\* [-~\s] : the padding class of line 186
PadChars == {"-", "~"} \cup WhitespaceChars

\* [<>:"/\\|?*\x00-\x1f] : line 347 (x01 stands for the control characters)
IllegalChars == {"<", ">", ":", "quote", "/", "backslash", "|", "?", "*", "x01"}

DigitChars == {"0", "1", "2", "3", "4", "5", "6", "7", "8", "9"}

\* the characters of the model that \w does not match; every other one is a
\* letter, a digit, a CJK ideograph or "_"
NonWordChars == (SeparatorChars \ {"_"}) \cup IllegalChars
                   \cup {"(", ")", "[", "]", "u300A", "u300B", "uFF01", "uFF1F",
                         "&", ";"}

IsWord(c) == c \notin NonWordChars

special_chars == {"(", ")", "[", "]", "u300A", "u300B", "uFF01", "uFF1F"}

common_artists == {
    <<"u5468", "u6770", "u4F26">>,
    <<"u6797", "u4FCA", "u6770">>,
    <<"u5B59", "u71D5", "u59FF">>,
    <<"u9648", "u5955", "u8FC5">>,
    <<"u738B", "u83F2">>,
    <<"u6881", "u9759", "u8339">>,
    <<"T", "a", "y", "l", "o", "r", " ", "S", "w", "i", "f", "t">>,
    <<"E", "d", " ", "S", "h", "e", "e", "r", "a", "n">>,
    <<"A", "d", "e", "l", "e">>,
    <<"B", "r", "u", "n", "o", " ", "M", "a", "r", "s">>,
    <<"u9093", "u7D2B", "u68CB">>,
    <<"u674E", "u8363", "u6D69">>,
    <<"u859B", "u4E4B", "u8C26">>,
    <<"u6BDB", "u4E0D", "u6613">>,
    <<"u534E", "u6668", "u5B87">> }

artist_keywords == {
    <<"u4E50", "u961F">>,
    <<"u7EC4", "u5408">>,
    <<"u4E50", "u56E2">>,
    <<"u5408", "u5531", "u56E2">>,
    <<"&">>,
    <<"a", "n", "d">>,
    <<"f", "e", "a", "t">>,
    <<"f", "t">>,
    <<"f", "e", "a", "t", "u", "r", "i", "n", "g">> }

\* "未知艺术家"
UnknownArtist == <<"u672A", "u77E5", "u827A", "u672F", "u5BB6">>

VariousArtists == <<"V", "a", "r", "i", "o", "u", "s", " ",
                    "A", "r", "t", "i", "s", "t", "s">>

---------------------------------------------------------------------------
(* str and re primitives.                                                  *)

MaxOf(S) == CHOOSE x \in S : \A y \in S : y =< x

MinOf(S) == CHOOSE x \in S : \A y \in S : x =< y

\* s[p:p+len(w)] == w, p counted from 1
MatchAt(s, p, w) ==
    /\ p >= 1
    /\ p + Len(w) - 1 =< Len(s)
    /\ \A k \in 1..Len(w) : s[p + k - 1] = w[k]

\* w in s
Contains(s, w) == \E p \in 1..(Len(s) + 1) : MatchAt(s, p, w)

\* \b between s[g] and s[g+1] (g = 0: the start, g = Len(s): the end)
WordBoundary(s, g) ==
    LET before == g >= 1 /\ IsWord(s[g])
        after  == g < Len(s) /\ IsWord(s[g + 1])
    IN  before # after

RECURSIVE LStrip(_, _)
LStrip(s, C) ==
    IF s # <<>> /\ Head(s) \in C THEN LStrip(Tail(s), C) ELSE s

RECURSIVE RStrip(_, _)
RStrip(s, C) ==
    IF s # <<>> /\ s[Len(s)] \in C THEN RStrip(SubSeq(s, 1, Len(s) - 1), C) ELSE s

\* str.strip()
Strip(s) == RStrip(LStrip(s, WhitespaceChars), WhitespaceChars)

\* length of the run of characters of C that starts at s[p]
RECURSIVE RunLen(_, _, _)
RunLen(s, p, C) ==
    IF p =< Len(s) /\ s[p] \in C THEN 1 + RunLen(s, p + 1, C) ELSE 0

\* re.sub(r'\b' + re.escape(a) + r'\b', '', s), scanning from s[p]; a # ''
RECURSIVE SubWord(_, _, _)
SubWord(s, a, p) ==
    IF p > Len(s) THEN <<>>
    ELSE IF /\ MatchAt(s, p, a)
            /\ WordBoundary(s, p - 1)
            /\ WordBoundary(s, p - 1 + Len(a))
         THEN SubWord(s, a, p + Len(a))
         ELSE <<s[p]>> \o SubWord(s, a, p + 1)

\* where a match of [-~\s]* a [-~\s]* that starts at s[p] ends (the position
\* after it), 0 if none starts there: the leading run is greedy and gives
\* back characters until a matches, the trailing run is greedy
PaddedEnd(s, a, p) ==
    LET ks == {k \in 0..RunLen(s, p, PadChars) : MatchAt(s, p + k, a)}
    IN  IF ks = {} THEN 0
        ELSE LET e == p + MaxOf(ks) + Len(a)
             IN  e + RunLen(s, e, PadChars)

\* re.sub(r'[-~\s]*' + re.escape(a) + r'[-~\s]*', '', s), scanning from s[p]
RECURSIVE SubPadded(_, _, _)
SubPadded(s, a, p) ==
    IF p > Len(s) THEN <<>>
    ELSE IF PaddedEnd(s, a, p) # 0
         THEN SubPadded(s, a, PaddedEnd(s, a, p))
         ELSE <<s[p]>> \o SubPadded(s, a, p + 1)

\* re.sub(r'[~\-_\s\.—–]+', ' ', s), scanning from s[p]
RECURSIVE CollapseSeparators(_, _)
CollapseSeparators(s, p) ==
    IF p > Len(s) THEN <<>>
    ELSE IF s[p] \in SeparatorChars
         THEN <<" ">> \o CollapseSeparators(s, p + RunLen(s, p, SeparatorChars))
         ELSE <<s[p]>> \o CollapseSeparators(s, p + 1)

\* " ".join(parts)
RECURSIVE JoinWith(_, _)
JoinWith(parts, sep) ==
    IF parts = <<>> THEN <<>>
    ELSE IF Len(parts) = 1 THEN parts[1]
    ELSE parts[1] \o sep \o JoinWith(Tail(parts), sep)

---------------------------------------------------------------------------
(* The filename heuristics.                                                *)

\* re.split(separators, filename), empty parts dropped: the maximal runs of
\* characters that are not separators (a part holds no whitespace, so its
\* strip() changes nothing)
RECURSIVE split_filename(_)
split_filename(filename) ==
    LET s == LStrip(filename, SeparatorChars)
    IN  IF s = <<>> THEN <<>>
        ELSE LET m == MinOf({i \in 1..(Len(s) + 1) :
                              i = Len(s) + 1 \/ s[i] \in SeparatorChars})
             IN  <<SubSeq(s, 1, m - 1)>> \o split_filename(SubSeq(s, m, Len(s)))

\* Counter.get(text, 0)
CandidateCount(cands, text) ==
    IF text \in DOMAIN cands THEN cands[text] ELSE 0

is_likely_artist(cands, text) ==
    \/ text \in common_artists
    \/ \E keyword \in artist_keywords : Contains(text, keyword)
    \/ CandidateCount(cands, text) > 2
    \/ /\ 2 =< Len(text)
       /\ Len(text) =< 4
       /\ ~ \E i \in DOMAIN text : text[i] \in DigitChars

is_likely_song_title(cands, text) ==
    \/ Len(text) >= 3 /\ ~ is_likely_artist(cands, text)
    \/ \E i \in DOMAIN text : text[i] \in special_chars

\* lines 141-150: the score of parts[i] (i counted from 1) as the artist
ArtistScore(cands, parts, i) ==
    (IF is_likely_artist(cands, parts[i]) THEN 3 ELSE 0)
    + (IF CandidateCount(cands, parts[i]) > 1 THEN 2 ELSE 0)
    + (IF i = 1 THEN 1 ELSE 0)

\* lines 153-156: artist_scores.sort(reverse=True) orders the tuples
\* (score, i, part) downwards, so artist_scores[0] holds the greatest score
\* and, among equal scores, the greatest i
BestArtistIdx(cands, parts) ==
    CHOOSE i \in DOMAIN parts : \A j \in DOMAIN parts :
        \/ ArtistScore(cands, parts, j) < ArtistScore(cands, parts, i)
        \/ ArtistScore(cands, parts, j) = ArtistScore(cands, parts, i) /\ j =< i

\* lines 138-174: three parts or more
ParseMany(cands, parts) ==
    LET best        == BestArtistIdx(cands, parts)
        artist      == parts[best]
        title_parts == SubSeq(parts, 1, best - 1) \o SubSeq(parts, best + 1, Len(parts))
        joined      == JoinWith(title_parts, <<" ">>)
        removed     == Strip(SubWord(joined, artist, 1))
        title       == Strip(CollapseSeparators(removed, 1))
    IN  [artist |-> artist,
         title  |-> IF title = <<>> /\ title_parts # <<>> THEN title_parts[1] ELSE title]

\* lines 109-136: two parts
ParseTwo(cands, parts) ==
    LET part1 == parts[1]
        part2 == parts[2]
        score_artist_first ==
            (IF is_likely_artist(cands, part1) THEN 2 ELSE 0)
            + (IF is_likely_song_title(cands, part2) THEN 1 ELSE 0)
        score_title_first ==
            (IF is_likely_artist(cands, part2) THEN 2 ELSE 0)
            + (IF is_likely_song_title(cands, part1) THEN 1 ELSE 0)
    IN  IF score_artist_first > score_title_first
        THEN [artist |-> part1, title |-> part2]
        ELSE IF score_title_first > score_artist_first
        THEN [artist |-> part2, title |-> part1]
        ELSE [artist |-> part1, title |-> part2]

parse_filename_intelligently(cands, filename) ==
    LET parts == split_filename(filename)
    IN  IF Len(parts) = 1 THEN [artist |-> None, title |-> parts[1]]
        ELSE IF Len(parts) = 2 THEN ParseTwo(cands, parts)
        ELSE IF Len(parts) >= 3 THEN ParseMany(cands, parts)
        ELSE [artist |-> None, title |-> filename]

clean_title(title, artist) ==
    IF artist = <<>> \/ artist = VariousArtists THEN title
    ELSE LET c1 == Strip(SubWord(title, artist, 1))
             c2 == Strip(SubPadded(c1, artist, 1))
             c3 == Strip(RStrip(c2, SeparatorChars))
             c4 == Strip(LStrip(c3, SeparatorChars))
         IN  IF c4 # <<>> THEN c4 ELSE title

---------------------------------------------------------------------------
(* The metadata resolver.                                                  *)

\* artist.split('/')[0] : what precedes the first c
BeforeFirst(s, c) ==
    SubSeq(s, 1, MinOf({i \in 1..(Len(s) + 1) : i = Len(s) + 1 \/ s[i] = c}) - 1)

\* lines 225-236.  A frame is its text, the empty sequence when the file has
\* no such frame.
TagArtist(tags) ==
    IF tags.TPE1 # <<>>
    THEN LET artist == Strip(tags.TPE1)
         IN  IF \E i \in DOMAIN artist : artist[i] = "/"
             THEN Strip(BeforeFirst(artist, "/"))
             ELSE IF \E i \in DOMAIN artist : artist[i] = ";"
             THEN Strip(BeforeFirst(artist, ";"))
             ELSE artist
    ELSE IF tags.TPE2 # <<>> THEN Strip(tags.TPE2)
    ELSE None

\* lines 217-222
TagTitle(tags) ==
    IF tags.TIT2 # <<>> THEN Strip(tags.TIT2)
    ELSE IF tags.TIT1 # <<>> THEN Strip(tags.TIT1)
    ELSE IF tags.TIT3 # <<>> THEN Strip(tags.TIT3)
    ELSE None

\* lines 232, 236
TagSource(tags) ==
    IF tags.TPE1 # <<>> THEN "TPE1_tag"
    ELSE IF tags.TPE2 # <<>> THEN "TPE2_tag"
    ELSE "None"

\* lines 249-251: info["artist_source"] once the title is settled
SourceAfterTitle(tag_title, filename_title, tag_source) ==
    IF tag_title = <<>> /\ filename_title # <<>> THEN "filename_parse_title"
    ELSE tag_source

\* lines 253-256
SourceAfterArtist(use_filename, source) ==
    IF use_filename /\ source = "None" THEN "filename_parse_artist" ELSE source

\* lines 253, 267: the artist extract_metadata settles on
ResolveArtist(tag_artist, filename_artist) ==
    LET use_filename == (tag_artist = <<>> \/ tag_artist = UnknownArtist)
                        /\ filename_artist # <<>>
        artist       == IF use_filename THEN filename_artist ELSE tag_artist
    IN  IF artist = <<>> THEN VariousArtists ELSE artist

\* lines 249-272: the tags' title, artist and source merged with the parse
\* of the filename.  "duration" tells whether the returned dict has the key;
\* artist_origin is not a key of the dict: it records the assignment (line
\* 231/235, 254 or 268) that wrote the returned artist.
MergeMetadata(file, parsed, tag_title, tag_artist, tag_source) ==
    LET title1  == IF tag_title = <<>> /\ parsed.title # <<>>
                   THEN parsed.title ELSE tag_title
        source1 == SourceAfterTitle(tag_title, parsed.title, tag_source)
        use_fn  == (tag_artist = <<>> \/ tag_artist = UnknownArtist)
                   /\ parsed.artist # <<>>
        artist1 == IF use_fn THEN parsed.artist ELSE tag_artist
        source2 == SourceAfterArtist(use_fn, source1)
        title2  == IF title1 = <<>> THEN file.stem ELSE title1
    IN  [title         |-> IF artist1 # <<>> /\ title2 # <<>>
                           THEN clean_title(title2, artist1) ELSE title2,
         artist        |-> ResolveArtist(tag_artist, parsed.artist),
         artist_source |-> IF artist1 = <<>> /\ source2 = "None"
                           THEN "default" ELSE source2,
         duration      |-> TRUE,
         artist_origin |-> IF use_fn THEN "filename"
                           ELSE IF artist1 # <<>> THEN "tag" ELSE "default"]

\* lines 201-281, parsed being _parse_filename_intelligently(file_path.stem)
ResolveMetadata(file, read, parsed) ==
    IF read.raises
    THEN [title         |-> IF parsed.title # <<>> THEN parsed.title ELSE file.stem,
          artist        |-> IF parsed.artist # <<>> THEN parsed.artist
                            ELSE VariousArtists,
          artist_source |-> "error_fallback",
          duration      |-> FALSE,
          artist_origin |-> IF parsed.artist # <<>> THEN "filename" ELSE "default"]
    ELSE IF read.audio /\ file.ext = <<".", "m", "p", "3">>
    THEN MergeMetadata(file, parsed, TagTitle(read.tags), TagArtist(read.tags),
                       TagSource(read.tags))
    ELSE MergeMetadata(file, parsed, None, None, "None")

\* extract_metadata(file_path), File(file_path) having answered read:
\*   read.raises  the try block raises,
\*   read.audio   File() returned an object (not None),
\*   read.tags    audio.tags, an empty record of frames when it is falsy.
extract_metadata(cands, file, read) ==
    ResolveMetadata(file, read, parse_filename_intelligently(cands, file.stem))

---------------------------------------------------------------------------
(* Output names.                                                           *)

MaxNameLen == 100

\* lines 347-349
sanitize_filename(name) ==
    LET kept == SelectSeq(name, LAMBDA c : c \notin IllegalChars)
    IN  Strip(SubSeq(kept, 1, IF Len(kept) < MaxNameLen THEN Len(kept) ELSE MaxNameLen))

\* str(counter)
RECURSIVE Decimal(_)
Decimal(n) ==
    LET digit == <<"0", "1", "2", "3", "4", "5", "6", "7", "8", "9">>[(n % 10) + 1]
    IN  IF n < 10 THEN <<digit>> ELSE Decimal(n \div 10) \o <<digit>>

\* Path(name).stem : the name up to its last ".", the whole name when that
\* "." opens or ends it or there is none
PathStem(name) ==
    LET dots == {i \in DOMAIN name : name[i] = "."}
    IN  IF dots = {} THEN name
        ELSE IF MaxOf(dots) = 1 \/ MaxOf(dots) = Len(name) THEN name
        ELSE SubSeq(name, 1, MaxOf(dots) - 1)

\* lines 379-382
BaseFilename(title, artist) ==
    IF artist # VariousArtists
    THEN sanitize_filename(artist) \o <<" ", "-", " ">> \o sanitize_filename(title)
    ELSE sanitize_filename(title)

\* lines 389-393: the loop, entered with the name of lines 386-387 taken
RECURSIVE NumberedFilename(_, _, _, _)
NumberedFilename(dir, base_filename, audio_ext, counter) ==
    LET final_filename == base_filename \o <<"_">> \o Decimal(counter) \o audio_ext
    IN  IF final_filename \in dir
        THEN NumberedFilename(dir, base_filename, audio_ext, counter + 1)
        ELSE final_filename

\* a loop that tries the suffix _1 only
FinalFilenameOneTry(dir, base_filename, audio_ext) ==
    IF (base_filename \o audio_ext) \in dir
    THEN base_filename \o <<"_", "1">> \o audio_ext
    ELSE base_filename \o audio_ext

\* lines 385-393: the name the track is copied to, dir being the names in audio/
FinalFilename(dir, base_filename, audio_ext) ==
    IF (base_filename \o audio_ext) \in dir
    THEN NumberedFilename(dir, base_filename, audio_ext, 1)
    ELSE base_filename \o audio_ext

---------------------------------------------------------------------------
(* Inputs.                                                                 *)

ZhouJielun == <<"u5468", "u6770", "u4F26">>

LinJunjie == <<"u6797", "u4FCA", "u6770">>

WangFei == <<"u738B", "u83F2">>

\* "告白气球"
GaoBaiQiQiu == <<"u544A", "u767D", "u6C14", "u7403">>

\* "晴天"
QingTian == <<"u6674", "u5929">>

Hello == <<"h", "e", "l", "l", "o">>

Year == <<"1", "9", "8", "9">>

Dash == <<" ", "-", " ">>

Mp3 == <<".", "m", "p", "3">>

Flac == <<".", "f", "l", "a", "c">>

\* the strings over A of length n at most
Strings(A, n) == UNION {[1..k -> A] : k \in 0..n}

\* how many parts of the filename are the token t
Occurrences(parts, t) == Cardinality({i \in DOMAIN parts : parts[i] = t})

MaxExtra == 2

\* the counts a corpus that holds the filename can give its own tokens: a
\* token longer than one character is counted once per occurrence (lines
\* 52-54), here and in at most MaxExtra other places of the corpus
CorpusCounts(parts) ==
    LET keys == {parts[i] : i \in {j \in DOMAIN parts : Len(parts[j]) > 1}}
    IN  {c \in [keys -> 1..(Len(parts) + MaxExtra)] :
            \A t \in keys : /\ c[t] >= Occurrences(parts, t)
                             /\ c[t] =< Occurrences(parts, t) + MaxExtra}

IdleRun ==
    /\ music_files = <<>>
    /\ artist_candidates = <<>>
    /\ idx = 0
    /\ audio = <<>>
    /\ lyrics = <<>>
    /\ music_list = <<>>
    /\ log = <<>>
    /\ playlist = <<>>

---------------------------------------------------------------------------
(* _clean_title applied to a title, and to its own result.                 *)

MaxTitleLen == 5

MaxArtistLen == 2

CleanAlphabet == {"a", "b", "-", " ", "."}

InitClean ==
    /\ pc = "clean"
    /\ inp \in [title  : Strings(CleanAlphabet, MaxTitleLen),
                 artist : Strings(CleanAlphabet, MaxArtistLen) \cup {VariousArtists}]
    /\ out = <<>>
    /\ IdleRun

CleanOnce ==
    /\ pc = "clean"
    /\ out' = [once |-> clean_title(inp.title, inp.artist)]
    /\ pc' = "cleaned"
    /\ UNCHANGED <<inp, runVars>>

CleanAgain ==
    /\ pc = "cleaned"
    /\ out' = [once  |-> out.once,
               twice |-> clean_title(out.once, inp.artist)]
    /\ pc' = "done"
    /\ UNCHANGED <<inp, runVars>>

NextClean == CleanOnce \/ CleanAgain

SpecClean == InitClean /\ [][NextClean]_vars

---------------------------------------------------------------------------
(* _parse_filename_intelligently applied to a filename of the corpus.      *)

MaxTokens == 3

Tokens == {ZhouJielun, GaoBaiQiQiu, Hello, Year, <<"a">>}

Filenames ==
    {JoinWith(parts, Dash) : parts \in UNION {[1..k -> Tokens] : k \in 1..MaxTokens}}

InitParse ==
    /\ pc = "parse"
    /\ \E filename \in Filenames :
         \E cands \in CorpusCounts(split_filename(filename)) :
            inp = [filename |-> filename, cands |-> cands]
    /\ out = <<>>
    /\ IdleRun

Parse ==
    /\ pc = "parse"
    /\ out' = parse_filename_intelligently(inp.cands, inp.filename)
    /\ pc' = "done"
    /\ UNCHANGED <<inp, runVars>>

NextParse == Parse

SpecParse == InitParse /\ [][NextParse]_vars

---------------------------------------------------------------------------
(* extract_metadata applied to a file of the corpus.                       *)

MetaStems == {QingTian, ZhouJielun \o Dash \o QingTian,
              Hello \o Dash \o GaoBaiQiQiu \o Dash \o Year}

TagChoices ==
    [TIT2 : {None, QingTian},
     TIT1 : {None, Hello},
     TIT3 : {None},
     TPE1 : {None, LinJunjie, UnknownArtist, LinJunjie \o <<"/">> \o ZhouJielun},
     TPE2 : {None, WangFei}]

NoTags == [TIT2 |-> None, TIT1 |-> None, TIT3 |-> None, TPE1 |-> None, TPE2 |-> None]

\* what File(file_path) can answer: an exception, None, or an object with
\* its tags
Reads ==
    {[raises |-> TRUE, audio |-> FALSE, tags |-> NoTags],
     [raises |-> FALSE, audio |-> FALSE, tags |-> NoTags]}
    \cup [raises : {FALSE}, audio : {TRUE}, tags : TagChoices]

InitMeta ==
    /\ pc = "extract"
    /\ \E stem \in MetaStems, ext \in {Mp3, Flac}, read \in Reads :
         \E cands \in CorpusCounts(split_filename(stem)) :
            inp = [file |-> [stem |-> stem, ext |-> ext], read |-> read,
                   cands |-> cands]
    /\ out = <<>>
    /\ IdleRun

Extract ==
    /\ pc = "extract"
    /\ out' = extract_metadata(inp.cands, inp.file, inp.read)
    /\ pc' = "done"
    /\ UNCHANGED <<inp, runVars>>

NextMeta == Extract

SpecMeta == InitMeta /\ [][NextMeta]_vars

---------------------------------------------------------------------------
(* The run: SmartMusicManager(...), process_directory(), generate_json().  *)

MaxFiles == 2

RunStems == {ZhouJielun \o Dash \o QingTian, QingTian}

FilePool == [stem : RunStems, ext : {Mp3, Flac}]

\* lines 42-45, 353-356: the .mp3 files first, then the .flac files, each
\* group in the order the filesystem lists it; no file twice
ScanLists ==
    {fs \in UNION {[1..n -> FilePool] : n \in 0..MaxFiles} :
        /\ \A i, j \in DOMAIN fs : i # j => fs[i] # fs[j]
        /\ \A i, j \in DOMAIN fs : (i < j /\ fs[j].ext = Mp3) => fs[i].ext = Mp3}

\* what audio/ may hold when the run starts: the output of earlier runs
OldAudio ==
    SUBSET {ZhouJielun \o Dash \o QingTian \o Mp3,
            ZhouJielun \o Dash \o QingTian \o <<"_", "1">> \o Mp3}

\* what File(file_path) answers during the run
RunReads ==
    {[raises |-> TRUE, audio |-> FALSE, tags |-> NoTags],
     [raises |-> FALSE, audio |-> TRUE, tags |-> NoTags],
     [raises |-> FALSE, audio |-> TRUE,
      tags |-> [NoTags EXCEPT !.TIT2 = QingTian, !.TPE1 = ZhouJielun]]}

\* how the copy and the lyric write end: "copy" is read_bytes/write_bytes
\* raising before the destination exists, "lrc" is lrc_dest.write_text raising
Failures == {"none", "copy", "lrc"}

\* self.artist_candidates[part] += 1
Increment(cands, part) ==
    [t \in DOMAIN cands \cup {part} |->
        IF t = part THEN CandidateCount(cands, part) + 1 ELSE cands[t]]

\* lines 52-54, for parts[p], parts[p + 1], ...
RECURSIVE RecordParts(_, _, _)
RecordParts(cands, parts, p) ==
    IF p > Len(parts) THEN cands
    ELSE RecordParts(IF Len(parts[p]) > 1 THEN Increment(cands, parts[p]) ELSE cands,
                     parts, p + 1)

\* lines 47-54, for files[i], files[i + 1], ...
RECURSIVE CollectFrom(_, _, _)
CollectFrom(cands, files, i) ==
    IF i > Len(files) THEN cands
    ELSE CollectFrom(RecordParts(cands, split_filename(files[i].stem), 1), files, i + 1)

\* a first scan that misses the first file
CollectSkipsFirst(files) == CollectFrom(<<>>, files, 2)

collect_artist_candidates(files) == CollectFrom(<<>>, files, 1)

\* a loop that a failing iteration ends
NextIndexAbort(i, failed) == IF failed THEN Len(music_files) + 1 ELSE i + 1

\* the index the loop of lines 363-436 goes on with once the iteration of
\* music_files[i] has ended, by its last statement or in the handler of
\* lines 434-436 (continue)
NextIndex(i, failed) == i + 1

\* audio_dest.write_bytes / lrc_dest.write_text: the file is created, or
\* replaced when the name is taken
WriteFile(dir, name, writer) ==
    [n \in DOMAIN dir \cup {name} |-> IF n = name THEN writer ELSE dir[n]]

\* lines 396-429: the copy, the lyrics, the entry
StoreTrack(dirs, list, i, file, metadata, title, artist, base_filename, final_filename, has_lrc, fail) ==
    LET copied       == fail # "copy"
        lrc_filename == PathStem(final_filename) \o <<".", "l", "r", "c">>
        lrc_written  == copied /\ has_lrc /\ fail # "lrc"
        failed       == \/ ~ copied
                        \/ has_lrc /\ fail = "lrc"
                        \/ ~ metadata.duration   \* line 426: KeyError
        entry        == [name          |-> title,
                         artist        |-> artist,
                         url           |-> final_filename,
                         lrc           |-> IF has_lrc THEN lrc_filename ELSE None,
                         artist_source |-> metadata.artist_source,
                         original      |-> i]
    IN  [audio      |-> IF copied THEN WriteFile(dirs.audio, final_filename, i)
                        ELSE dirs.audio,
         lyrics     |-> IF lrc_written THEN WriteFile(dirs.lyrics, lrc_filename, i)
                        ELSE dirs.lyrics,
         music_list |-> IF failed THEN list ELSE Append(list, entry),
         note       |-> [file   |-> i,
                         raised |-> metadata.artist_source = "error_fallback",
                         fail   |-> fail,
                         failed |-> failed,
                         copied |-> copied,
                         before |-> DOMAIN dirs.audio,
                         base   |-> base_filename,
                         ext    |-> file.ext,
                         url    |-> final_filename]]

\* lines 385-393
PlaceTrack(dirs, list, i, file, metadata, title, artist, base_filename, has_lrc, fail) ==
    StoreTrack(dirs, list, i, file, metadata, title, artist, base_filename,
               FinalFilename(DOMAIN dirs.audio, base_filename, file.ext),
               has_lrc, fail)

\* lines 375-382
NameTrack(dirs, list, i, file, metadata, title, artist, has_lrc, fail) ==
    PlaceTrack(dirs, list, i, file, metadata, title, artist,
               BaseFilename(title, artist), has_lrc, fail)

\* lines 369-370
ResolveTrack(dirs, list, i, file, metadata, has_lrc, fail) ==
    NameTrack(dirs, list, i, file, metadata,
              IF metadata.title # <<>> THEN metadata.title ELSE file.stem,
              IF metadata.artist # <<>> THEN metadata.artist ELSE VariousArtists,
              has_lrc, fail)

\* one iteration of lines 363-436, for music_files[i]:
\*   read     what File() answers in extract_metadata,
\*   has_lrc  lrc_content is truthy (the sidecar's text or search_lyrics');
\*            it is not read when the copy fails,
\*   fail     how the writes end.
\* search_cover neither raises nor writes; the cover, the album and the
\* duration's value are left out of the entry.
process_file(cands, dirs, list, i, file, read, has_lrc, fail) ==
    ResolveTrack(dirs, list, i, file, extract_metadata(cands, file, read),
                 has_lrc, fail)

\* lines 444-459: the objects playlist.json holds (cover and duration left out)
generate_json(list) ==
    [k \in DOMAIN list |-> [name   |-> list[k].name,
                           artist |-> list[k].artist,
                           url    |-> list[k].url,
                           lrc    |-> list[k].lrc]]

Init ==
    /\ pc = "construct"
    /\ inp = <<>>
    /\ out = <<>>
    /\ music_files \in ScanLists
    /\ artist_candidates = <<>>
    /\ idx = 1
    /\ audio \in {[n \in old |-> 0] : old \in OldAudio}
    /\ lyrics = <<>>
    /\ music_list = <<>>
    /\ log = <<>>
    /\ playlist = <<>>

\* __init__, line 36: the first scan
Collect ==
    /\ pc = "construct"
    /\ artist_candidates' = collect_artist_candidates(music_files)
    /\ pc' = "process"
    /\ UNCHANGED <<inp, out, music_files, idx, audio, lyrics, music_list, log, playlist>>

\* process_directory: one iteration of its loop
ProcessFile ==
    /\ pc = "process"
    /\ idx =< Len(music_files)
    /\ \E read \in RunReads, has_lrc \in BOOLEAN, fail \in Failures :
          /\ fail = "lrc" => has_lrc
          /\ fail = "copy" => ~ has_lrc
          /\ \E r \in {process_file(artist_candidates,
                                     [audio |-> audio, lyrics |-> lyrics],
                                     music_list, idx, music_files[idx],
                                     read, has_lrc, fail)} :
                /\ audio' = r.audio
                /\ lyrics' = r.lyrics
                /\ music_list' = r.music_list
                /\ log' = Append(log, r.note)
                /\ idx' = NextIndex(idx, r.note.failed)
    /\ UNCHANGED <<pc, inp, out, music_files, artist_candidates, playlist>>

\* lines 438, 494-495: the loop is over, the list is returned and written
GenerateJson ==
    /\ pc = "process"
    /\ idx > Len(music_files)
    /\ playlist' = generate_json(music_list)
    /\ pc' = "done"
    /\ UNCHANGED <<inp, out, music_files, artist_candidates, idx, audio, lyrics,
                   music_list, log>>

Next == Collect \/ ProcessFile \/ GenerateJson

Spec == Init /\ [][Next]_vars

---------------------------------------------------------------------------
(* Claims about the filename parser (under SpecParse).                     *)

ParsedParts == split_filename(inp.filename)

TopScore(cands, parts) ==
    MaxOf({ArtistScore(cands, parts, i) : i \in DOMAIN parts})

TopIndices(cands, parts) ==
    {i \in DOMAIN parts : ArtistScore(cands, parts, i) = TopScore(cands, parts)}

\* C1: for a filename of three tokens or more in which two or more tokens
\* share the greatest artist score, the artist returned is the tied token of
\* the lowest index.
C1_LowestIndexWinsTie ==
    (/\ pc = "done"
     /\ Len(ParsedParts) >= 3
     /\ Cardinality(TopIndices(inp.cands, ParsedParts)) >= 2)
    => out.artist = ParsedParts[MinOf(TopIndices(inp.cands, ParsedParts))]

\* C2: the title-first stem "告白气球 - 周杰伦" parses to artist "周杰伦" and
\* title "告白气球", the pair the artist-first stem "周杰伦 - 告白气球" gives,
\* whatever the corpus counts.
C2_TitleFirstOrderIndependent ==
    (pc = "done" /\ inp.filename = GaoBaiQiQiu \o Dash \o ZhouJielun)
    => /\ out = [artist |-> ZhouJielun, title |-> GaoBaiQiQiu]
       /\ out = parse_filename_intelligently(inp.cands,
                                              ZhouJielun \o Dash \o GaoBaiQiQiu)

---------------------------------------------------------------------------
(* Claims about the title cleaner (under SpecClean).                       *)

\* C3: cleaning a cleaned title again, for the same artist, changes nothing.
C3_CleanTitleIdempotent ==
    pc = "done" => out.twice = out.once

---------------------------------------------------------------------------
(* Claims about the metadata resolver (under SpecMeta).                    *)

TagOriginSources == {"TPE1_tag", "TPE2_tag"}

FilenameOriginSources == {"filename_parse_artist", "filename_parse_title"}

\* C5: when extraction does not raise, artist_source is a tag-origin value
\* exactly when the returned artist was read from a tag, a filename-origin
\* value exactly when it came from the filename parse, and "default" exactly
\* when it is the "Various Artists" default.
C5_SourceNamesArtistOrigin ==
    (pc = "done" /\ ~ inp.read.raises)
    => /\ out.artist_source \in TagOriginSources <=> out.artist_origin = "tag"
       /\ out.artist_source \in FilenameOriginSources <=> out.artist_origin = "filename"
       /\ out.artist_source = "default" <=> out.artist_origin = "default"

\* the artist the tags of the input give (none unless they are read)
InputTagArtist ==
    IF inp.read.audio /\ inp.file.ext = Mp3 THEN TagArtist(inp.read.tags) ELSE None

InputFilenameArtist == parse_filename_intelligently(inp.cands, inp.file.stem).artist

\* C6: when extraction does not raise, the returned artist is the tag artist
\* unless that is absent or "未知艺术家"; then it is the filename artist; and
\* "Various Artists" if that is absent too.
C6_ArtistPrecedence ==
    (pc = "done" /\ ~ inp.read.raises)
    => out.artist =
         IF InputTagArtist # <<>> /\ InputTagArtist # UnknownArtist
         THEN InputTagArtist
         ELSE IF InputFilenameArtist # <<>> THEN InputFilenameArtist
         ELSE VariousArtists

---------------------------------------------------------------------------
(* Claims about the run (under Spec).                                      *)

\* C4: a file whose tag extraction raises, and whose writes do not fail, is
\* processed to completion: it is copied and has a playlist entry, with
\* artist_source = error_fallback.
C4_RaisedFileCompletes ==
    \A k \in DOMAIN log :
        (log[k].raised /\ log[k].fail = "none")
        => /\ \E n \in DOMAIN audio : audio[n] = log[k].file
           /\ \E e \in DOMAIN music_list :
                 /\ music_list[e].original = log[k].file
                 /\ music_list[e].artist_source = "error_fallback"

Numbered(base, n, ext) == base \o <<"_">> \o Decimal(n) \o ext

\* the copied tracks before the k-th visit that share its base filename and
\* extension
EarlierSameName(k) ==
    {j \in 1..(k - 1) : /\ log[j].copied
                        /\ log[j].base = log[k].base
                        /\ log[j].ext = log[k].ext}

UrlsDistinct ==
    \A a, b \in DOMAIN music_list : a # b => music_list[a].url # music_list[b].url

\* every copy went to a name that audio/ did not hold, and still holds it
NeverOverwritten ==
    \A k \in DOMAIN log :
        log[k].copied => /\ log[k].url \notin log[k].before
                         /\ audio[log[k].url] = log[k].file

\* C7 as stated: no copy overwrites a file of audio/, the k-th track that
\* shares a base filename and extension gets the suffix _k (none for the
\* first), and the audio urls of the playlist are pairwise distinct.
C7_KthTrackGetsSuffixK ==
    /\ NeverOverwritten
    /\ UrlsDistinct
    /\ \A k \in DOMAIN log :
          log[k].copied
          => log[k].url =
               IF EarlierSameName(k) = {} THEN log[k].base \o log[k].ext
               ELSE Numbered(log[k].base, Cardinality(EarlierSameName(k)), log[k].ext)

\* C7, amended: no copy overwrites a file of audio/; the track is copied to
\* base+ext when audio/ does not hold that name, else to base_n+ext for the
\* least n >= 1 whose name audio/ does not hold; and the audio urls of the
\* playlist are pairwise distinct.
C7_FirstFreeName ==
    /\ NeverOverwritten
    /\ UrlsDistinct
    /\ \A k \in DOMAIN log :
          log[k].copied
          => \/ log[k].url = log[k].base \o log[k].ext
             \/ \E n \in 1..(Cardinality(log[k].before) + 1) :
                   /\ log[k].url = Numbered(log[k].base, n, log[k].ext)
                   /\ (log[k].base \o log[k].ext) \in log[k].before
                   /\ \A m \in 1..(n - 1) :
                         Numbered(log[k].base, m, log[k].ext) \in log[k].before

\* two tracks of the run collide on base+ext and on base_1+ext
C7_Witness ==
    \E j, k \in DOMAIN log :
        /\ j < k
        /\ log[j].copied /\ log[k].copied
        /\ log[j].base = log[k].base /\ log[j].ext = log[k].ext
        /\ log[k].url = Numbered(log[k].base, 2, log[k].ext)

\* the count of every token of more than one character over all the files
FullIndex(files) ==
    LET parts  == [i \in DOMAIN files |-> split_filename(files[i].stem)]
        places == {pl \in (DOMAIN files) \X (1..MaxOf({0} \cup {Len(parts[i]) : i \in DOMAIN files})) :
                      pl[2] =< Len(parts[pl[1]]) /\ Len(parts[pl[1]][pl[2]]) > 1}
    IN  [t \in {parts[pl[1]][pl[2]] : pl \in places} |->
            Cardinality({pl \in places : parts[pl[1]][pl[2]] = t})]

\* C8: once the constructor's scan is over the index holds the count of
\* every token over every scanned file, no file is classified before that,
\* and nothing that runs afterwards changes a count or adds a key.
C8_IndexBuiltOnceThenReadOnly ==
    /\ pc # "construct" => artist_candidates = FullIndex(music_files)
    /\ log # <<>> => pc # "construct"

\* a file has been classified against an index that counts a token twice
C8_Witness ==
    /\ pc = "process"
    /\ log # <<>>
    /\ \E t \in DOMAIN artist_candidates : artist_candidates[t] >= 2

\* the iteration raised: the copy or the lyric write failed, or the
\* error_fallback dict had no "duration" (line 426)
Raised(note) == note.fail # "none" \/ note.raised

Completed == SelectSeq(log, LAMBDA note : ~ Raised(note))

\* C9: the loop visits every scanned file once, in scan order, whatever
\* failed before; a file whose iteration raised has no entry and every other
\* file has one, in scan order; and playlist.json holds one object per entry.
C9_FailuresSkipOnlyTheirFile ==
    /\ \A k \in DOMAIN log : log[k].file = k
    /\ Len(log) =< Len(music_files)
    /\ pc = "done" => Len(log) = Len(music_files)
    /\ Len(music_list) = Len(Completed)
    /\ \A k \in DOMAIN music_list : music_list[k].original = Completed[k].file
    /\ pc = "done"
       => /\ Len(playlist) = Len(Completed)
          /\ \A k \in DOMAIN playlist : playlist[k].url = music_list[k].url

\* the run is over, a file failed and a later file has its entry
C9_Witness ==
    /\ pc = "done"
    /\ \E j, k \in DOMAIN log : j < k /\ Raised(log[j]) /\ ~ Raised(log[k])
    /\ Len(playlist) >= 1

\* C10: two playlist entries that have lyrics have different lyric paths.
C10_LyricPathsDistinct ==
    \A a, b \in DOMAIN music_list :
        (a # b /\ music_list[a].lrc # <<>> /\ music_list[b].lrc # <<>>)
        => music_list[a].lrc # music_list[b].lrc

====
